---- MODULE Spec2Model ----
(***************************************************************************)
(* folder-organizer: scan a directory, classify each file by extension,    *)
(* move it into a category folder with conflict-safe renaming, or delete   *)
(* or skip it, keeping counters and a structured operation log.            *)
(*                                                                         *)
(* File names are sequences of one-character strings, so that the suffix,  *)
(* the stem, the lower-casing and the "stem_N<suffix>" formatting are      *)
(* computed as pathlib and the f-string compute them.  A path is a         *)
(* sequence of names.  The filesystem maps every existing path to a node.  *)
(***************************************************************************)
EXTENDS Integers, Sequences, FiniteSets, TLC

(* ------------------------------------------------------------------ *)
(* Bounds of the model                                                  *)
(* ------------------------------------------------------------------ *)
\* largest number of children of the source directory at the start
MaxFiles == 2
\* largest number of injected I/O faults (stat, mkdir, move, unlink) in a run
MaxFaults == 1
\* largest number of direct calls of move_file/delete_file/skip_file
MaxCalls == 2
\* size of the pre-existing content of a small directory
MaxSeed == 2
\* largest number of regular files in a directory that is only scanned
MaxScan == 4

(* ------------------------------------------------------------------ *)
(* Strings                                                              *)
(* ------------------------------------------------------------------ *)
s_report_pdf == <<"r","e","p","o","r","t",".","p","d","f">>
s_report_1_pdf == <<"r","e","p","o","r","t","_","1",".","p","d","f">>
s_REPORT_PDF == <<"R","E","P","O","R","T",".","P","D","F">>
s_photo_jpg == <<"p","h","o","t","o",".","j","p","g">>
s_notes_xyz == <<"n","o","t","e","s",".","x","y","z">>
s_Images == <<"I","m","a","g","e","s">>
s_Documents == <<"D","o","c","u","m","e","n","t","s">>
s_Others == <<"O","t","h","e","r","s">>
s_DS_Store == <<".","D","S","_","S","t","o","r","e">>
s_Thumbs_db == <<"T","h","u","m","b","s",".","d","b">>
s_desktop_ini == <<"d","e","s","k","t","o","p",".","i","n","i">>
s_localized == <<".","l","o","c","a","l","i","z","e","d">>
s_pdf == <<".","p","d","f">>
s_jpg == <<".","j","p","g">>
s_PDF == <<".","P","D","F">>
s_src == <<"s","r","c">>
s_dst == <<"d","s","t">>

\* str.lower() on one character
lower_char(c) ==
    CASE c = "A" -> "a" [] c = "B" -> "b" [] c = "C" -> "c" [] c = "D" -> "d"
      [] c = "E" -> "e" [] c = "F" -> "f" [] c = "G" -> "g" [] c = "H" -> "h"
      [] c = "I" -> "i" [] c = "J" -> "j" [] c = "K" -> "k" [] c = "L" -> "l"
      [] c = "M" -> "m" [] c = "N" -> "n" [] c = "O" -> "o" [] c = "P" -> "p"
      [] c = "Q" -> "q" [] c = "R" -> "r" [] c = "S" -> "s" [] c = "T" -> "t"
      [] c = "U" -> "u" [] c = "V" -> "v" [] c = "W" -> "w" [] c = "X" -> "x"
      [] c = "Y" -> "y" [] c = "Z" -> "z" [] OTHER -> c

\* str.lower()
lower(s) == [i \in 1..Len(s) |-> lower_char(s[i])]

\* one decimal digit as a character
digit(d) ==
    CASE d = 0 -> "0" [] d = 1 -> "1" [] d = 2 -> "2" [] d = 3 -> "3"
      [] d = 4 -> "4" [] d = 5 -> "5" [] d = 6 -> "6" [] d = 7 -> "7"
      [] d = 8 -> "8" [] OTHER -> "9"

\* the f-string formatting {counter} of a non-negative integer
RECURSIVE str(_)
str(n) == IF n < 10 THEN <<digit(n)>> ELSE str(n \div 10) \o <<digit(n % 10)>>

\* str.rfind('.'): the last index of a dot, 0 when there is none
rfind_dot(name) ==
    LET dots == {i \in 1..Len(name) : name[i] = "."}
    IN IF dots = {} THEN 0 ELSE CHOOSE i \in dots : \A j \in dots : j <= i

\* Path.suffix: from the last dot, unless that dot leads or ends the name
suffix(name) ==
    LET i == rfind_dot(name)
    IN IF 1 < i /\ i < Len(name) THEN SubSeq(name, i, Len(name)) ELSE <<>>

\* Path.stem: the name without its suffix
stem(name) == SubSeq(name, 1, Len(name) - Len(suffix(name)))

(* ------------------------------------------------------------------ *)
(* Paths and the filesystem                                             *)
(* ------------------------------------------------------------------ *)
\* Path.name
name_of(p) == p[Len(p)]

\* Path.parent
parent_of(p) == SubSeq(p, 1, Len(p) - 1)

\* q is p or lies below p
is_prefix(p, q) == Len(p) <= Len(q) /\ SubSeq(q, 1, Len(p)) = p

FileNode(id) == [kind |-> "file", id |-> id]
DirNode == [kind |-> "dir", id |-> <<>>]

\* Path.exists()
exists(f, p) == p \in DOMAIN f

\* Path.is_dir()
is_dir(f, p) == p \in DOMAIN f /\ f[p].kind = "dir"

\* Path.is_file()
is_file(f, p) == p \in DOMAIN f /\ f[p].kind = "file"

(* ------------------------------------------------------------------ *)
(* utils.get_unique_filename                                            *)
(* ------------------------------------------------------------------ *)
\* the ceiling of the probe counter
MaxCounter == 9999

\* new_path = parent / f"{stem}_{counter}{suffix}"
new_path(p, counter) ==
    parent_of(p) \o <<stem(name_of(p)) \o <<"_">> \o str(counter) \o suffix(name_of(p))>>

\* the result of a call that raised
Raised == [ok |-> FALSE, path |-> <<>>]
Returned(p) == [ok |-> TRUE, path |-> p]

\* probe with the counter starting at 0 instead of 1
probe_from_zero(f, p) ==
    LET taken(c) == exists(f, new_path(p, c))
    IN IF \A c \in 0..MaxCounter : taken(c) THEN Raised
       ELSE Returned(new_path(p, CHOOSE c \in 0..MaxCounter :
                                     ~taken(c) /\ \A m \in 0..(c - 1) : taken(m)))

\* probe giving up one counter early (counter >= 9999 instead of counter > 9999)
probe_short_ceiling(f, p) ==
    LET taken(c) == exists(f, new_path(p, c))
    IN IF \A c \in 1..(MaxCounter - 1) : taken(c) THEN Raised
       ELSE Returned(new_path(p, CHOOSE c \in 1..(MaxCounter - 1) :
                                     ~taken(c) /\ \A m \in 1..(c - 1) : taken(m)))

\* the while loop: counter runs from 1; the first counter whose path is free is
\* returned; counter 9999 taken makes counter 10000 > 9999, which raises
probe(f, p) ==
    LET taken(c) == exists(f, new_path(p, c))
    IN IF \A c \in 1..MaxCounter : taken(c) THEN Raised
       ELSE Returned(new_path(p, CHOOSE c \in 1..MaxCounter :
                                     ~taken(c) /\ \A m \in 1..(c - 1) : taken(m)))

\* get_unique_filename without the probing loop: the path is returned as it is
get_unique_filename_no_probe(f, p) == Returned(p)

get_unique_filename(f, p) ==
    IF ~exists(f, p) THEN Returned(p) ELSE probe(f, p)

(* ------------------------------------------------------------------ *)
(* utils: ignore filter and classifier                                  *)
(* ------------------------------------------------------------------ *)
is_hidden_file(name) == Len(name) >= 1 /\ name[1] = "."

system_files == {s_DS_Store, s_Thumbs_db, s_desktop_ini, s_localized}

is_system_file(name) == name \in system_files

\* should_ignore_file without the system-file check
should_ignore_file_hidden_only(name) == is_hidden_file(name)

should_ignore_file(name) == is_hidden_file(name) \/ is_system_file(name)

\* the compiled-in category table and its default
FILE_FORMAT_FOLDERS == (s_pdf :> s_Documents) @@ (s_jpg :> s_Images)
DEFAULT_CATEGORY == s_Others

\* get_file_category looking the extension up as it is written
get_file_category_case_sensitive(name, format_mapping, default) ==
    LET extension == suffix(name)
    IN IF extension \in DOMAIN format_mapping THEN format_mapping[extension] ELSE default

get_file_category(name, format_mapping, default) ==
    LET extension == lower(suffix(name))
    IN IF extension \in DOMAIN format_mapping THEN format_mapping[extension] ELSE default

(* ------------------------------------------------------------------ *)
(* logger.FileOperationLogger: the events appended to the log           *)
(* ------------------------------------------------------------------ *)
Event(kind, name, detail, note) == [kind |-> kind, name |-> name, detail |-> detail, note |-> note]

log_move(lg, source, destination) == Append(lg, Event("MOVED", name_of(source), destination, ""))

log_rename(lg, original, renamed, reason) ==
    Append(lg, Event("RENAMED", name_of(original), <<name_of(renamed)>>, reason))

log_delete(lg, file_path, reason) == Append(lg, Event("DELETED", name_of(file_path), <<>>, reason))

log_skip(lg, file_path, reason) == Append(lg, Event("SKIPPED", name_of(file_path), <<>>, reason))

log_error(lg, file_path, error) == Append(lg, Event("ERROR", name_of(file_path), <<>>, error))

(* ------------------------------------------------------------------ *)
(* utils and shutil: the filesystem operations                          *)
(* ------------------------------------------------------------------ *)
\* create_destination_dir putting the directory in the place of a regular file
create_destination_dir_clobber(f, base_path, category, io_error) ==
    LET dest_dir == base_path \o <<category>>
    IN IF io_error THEN [ok |-> FALSE, fs |-> f, path |-> dest_dir, exc |-> "OSError"]
       ELSE IF is_dir(f, dest_dir) THEN [ok |-> TRUE, fs |-> f, path |-> dest_dir, exc |-> ""]
       ELSE IF ~is_dir(f, base_path)
            THEN [ok |-> FALSE, fs |-> f, path |-> dest_dir, exc |-> "FileNotFoundError"]
       ELSE [ok |-> TRUE, fs |-> (dest_dir :> DirNode) @@ f, path |-> dest_dir, exc |-> ""]

\* Path.mkdir(exist_ok=True) of base/category; io_error is a failure of the system call
create_destination_dir(f, base_path, category, io_error) ==
    LET dest_dir == base_path \o <<category>>
    IN IF io_error THEN [ok |-> FALSE, fs |-> f, path |-> dest_dir, exc |-> "OSError"]
       ELSE IF is_dir(f, dest_dir) THEN [ok |-> TRUE, fs |-> f, path |-> dest_dir, exc |-> ""]
       ELSE IF exists(f, dest_dir)
            THEN [ok |-> FALSE, fs |-> f, path |-> dest_dir, exc |-> "FileExistsError"]
       ELSE IF ~is_dir(f, base_path)
            THEN [ok |-> FALSE, fs |-> f, path |-> dest_dir, exc |-> "FileNotFoundError"]
       ELSE [ok |-> TRUE, fs |-> (dest_dir :> DirNode) @@ f, path |-> dest_dir, exc |-> ""]

\* os.rename of src (with everything below it) to dst, replacing a file at dst
rename(f, src, dst) ==
    LET moving == {q \in DOMAIN f : is_prefix(src, q)}
        target(q) == dst \o SubSeq(q, Len(src) + 1, Len(q))
        kept == (DOMAIN f \ moving) \ {dst}
    IN [q \in kept \cup {target(m) : m \in moving} |->
          IF q \in kept THEN f[q]
          ELSE f[CHOOSE m \in moving : target(m) = q]]

\* shutil.move(src, dst); io_error is a failure of the system call
shutil_move(f, src, dst, io_error) ==
    LET real_dst == IF is_dir(f, dst) THEN dst \o <<name_of(src)>> ELSE dst
    IN IF io_error THEN [ok |-> FALSE, fs |-> f, exc |-> "OSError"]
       ELSE IF ~exists(f, src) THEN [ok |-> FALSE, fs |-> f, exc |-> "FileNotFoundError"]
       ELSE IF is_dir(f, dst) /\ exists(f, real_dst) THEN [ok |-> FALSE, fs |-> f, exc |-> "Error"]
       ELSE IF ~is_dir(f, parent_of(real_dst))
            THEN [ok |-> FALSE, fs |-> f, exc |-> "FileNotFoundError"]
       ELSE [ok |-> TRUE, fs |-> rename(f, src, real_dst), exc |-> ""]

\* safe_delete_file reporting success for a path that is not a regular file
safe_delete_file_lenient(f, file_path, io_error) ==
    IF exists(f, file_path) /\ is_file(f, file_path) /\ ~io_error
    THEN [ok |-> TRUE, fs |-> [q \in DOMAIN f \ {file_path} |-> f[q]]]
    ELSE [ok |-> ~io_error, fs |-> f]

\* utils.safe_delete_file; io_error is a failure of unlink, swallowed into False
safe_delete_file(f, file_path, io_error) ==
    IF exists(f, file_path) /\ is_file(f, file_path)
    THEN IF io_error THEN [ok |-> FALSE, fs |-> f]
         ELSE [ok |-> TRUE, fs |-> [q \in DOMAIN f \ {file_path} |-> f[q]]]
    ELSE [ok |-> FALSE, fs |-> f]

(* ------------------------------------------------------------------ *)
(* organizer.FileOrganizer                                              *)
(* An organizer value o holds the filesystem, self.stats and the log.   *)
(* An operation returns the new organizer with its return value (ok,    *)
(* dest) and raised, which tells whether an exception left the method.  *)
(* ------------------------------------------------------------------ *)
\* the value of F at v, with v computed once
Let(v, F(_)) == CHOOSE r \in {F(x) : x \in {v}} : TRUE

FileInfo(path, category) == [path |-> path, category |-> category]

InitStats == [total |-> 0, moved |-> 0, renamed |-> 0, deleted |-> 0, skipped |-> 0, errors |-> 0]

Result(f, st, lg, ok, dest) ==
    [fs |-> f, stats |-> st, log |-> lg, ok |-> ok, dest |-> dest, raised |-> FALSE]

\* the handler letting the exception leave the method after logging and counting it
on_exception_reraise(f, st, lg, file_path, error) ==
    [fs |-> f, stats |-> [st EXCEPT !.errors = @ + 1], log |-> log_error(lg, file_path, error),
     ok |-> FALSE, dest |-> <<>>, raised |-> TRUE]

\* the handler logging the error without counting it
on_exception_uncounted(f, st, lg, file_path, error) ==
    [fs |-> f, stats |-> st, log |-> log_error(lg, file_path, error),
     ok |-> FALSE, dest |-> <<>>, raised |-> FALSE]

\* the handler "except Exception as e" of move_file and delete_file
on_exception(f, st, lg, file_path, error) ==
    Result(f, [st EXCEPT !.errors = @ + 1], log_error(lg, file_path, error), FALSE, <<>>)

\* dest_path = dest_dir / file_info.name
desired_path(base, file_info) == base \o <<file_info.category>> \o <<name_of(file_info.path)>>

\* shutil.move, log_move and the moved counter, with the statistics and the log
\* as the conflict handling has left them
finish_move(f, st, lg, file_info, dest_path, fault) ==
    Let(shutil_move(f, file_info.path, dest_path, fault = "move"), LAMBDA m :
        IF ~m.ok THEN on_exception(f, st, lg, file_info.path, m.exc)
        ELSE Result(m.fs, [st EXCEPT !.moved = @ + 1],
                    log_move(lg, file_info.path, dest_path), TRUE, dest_path))

\* move_file doing the bookkeeping of the rename before it asks for the name
move_file_rename_first(o, base, file_info, fault) ==
    Let(create_destination_dir(o.fs, base, file_info.category, fault = "mkdir"), LAMBDA d :
        IF ~d.ok THEN on_exception(d.fs, o.stats, o.log, file_info.path, d.exc)
        ELSE Let(d.path \o <<name_of(file_info.path)>>, LAMBDA dest_path :
             IF ~exists(d.fs, dest_path)
             THEN finish_move(d.fs, o.stats, o.log, file_info, dest_path, fault)
             ELSE Let(get_unique_filename(d.fs, dest_path), LAMBDA u :
                  IF ~u.ok
                  THEN on_exception(d.fs, [o.stats EXCEPT !.renamed = @ + 1],
                                    log_rename(o.log, dest_path, dest_path, "name conflict"),
                                    file_info.path, "ValueError")
                  ELSE finish_move(d.fs,
                                   [o.stats EXCEPT !.renamed = @ + 1],
                                   log_rename(o.log, dest_path, u.path, "name conflict"),
                                   file_info, u.path, fault))))

\* fault is "none", or the system call that fails: "mkdir" or "move"
move_file(o, base, file_info, fault) ==
    Let(create_destination_dir(o.fs, base, file_info.category, fault = "mkdir"), LAMBDA d :
        IF ~d.ok THEN on_exception(d.fs, o.stats, o.log, file_info.path, d.exc)
        ELSE Let(d.path \o <<name_of(file_info.path)>>, LAMBDA dest_path :
             IF ~exists(d.fs, dest_path)
             THEN finish_move(d.fs, o.stats, o.log, file_info, dest_path, fault)
             ELSE Let(get_unique_filename(d.fs, dest_path), LAMBDA u :
                  IF ~u.ok
                  THEN on_exception(d.fs, o.stats, o.log, file_info.path, "ValueError")
                  ELSE finish_move(d.fs,
                                   [o.stats EXCEPT !.renamed = @ + 1],
                                   log_rename(o.log, dest_path, u.path, "name conflict"),
                                   file_info, u.path, fault))))

\* fault is "none" or "unlink"
delete_file(o, file_info, fault) ==
    Let(safe_delete_file(o.fs, file_info.path, fault = "unlink"), LAMBDA success :
        IF ~success.ok
        THEN on_exception(success.fs, o.stats, o.log, file_info.path, "FileNotFoundError")
        ELSE Result(success.fs, [o.stats EXCEPT !.deleted = @ + 1],
                    log_delete(o.log, file_info.path, "user request"), TRUE, <<>>))

\* skip_file logging the skip without counting it
skip_file_uncounted(o, file_info, reason) ==
    Result(o.fs, o.stats, log_skip(o.log, file_info.path, reason), TRUE, <<>>)

skip_file(o, file_info, reason) ==
    Result(o.fs, [o.stats EXCEPT !.skipped = @ + 1], log_skip(o.log, file_info.path, reason),
           TRUE, <<>>)

\* the body of the for loop of scan_files for the items in iterdir order;
\* failing holds the items whose stat() raises
RECURSIVE scan_loop(_, _, _, _)
scan_loop(o, items, failing, found) ==
    IF items = <<>> THEN [fs |-> o.fs, stats |-> o.stats, log |-> o.log, files |-> found]
    ELSE LET item == Head(items)
             rest == Tail(items)
         IN IF is_dir(o.fs, item) THEN scan_loop(o, rest, failing, found)
            ELSE IF should_ignore_file(name_of(item)) THEN scan_loop(o, rest, failing, found)
            ELSE IF item \in failing
                 THEN scan_loop([fs |-> o.fs,
                                 stats |-> [o.stats EXCEPT !.errors = @ + 1],
                                 log |-> log_error(o.log, item, "OSError")],
                                rest, failing, found)
            ELSE scan_loop(o, rest, failing,
                           Append(found, FileInfo(item, get_file_category(name_of(item),
                                                    FILE_FORMAT_FOLDERS, DEFAULT_CATEGORY))))

\* scan_files without the try/except around the body: the loop ends at the
\* first item whose stat() raises
scan_files_aborting(o, items, failing) ==
    LET bad == {i \in 1..Len(items) : items[i] \in failing}
        n == IF bad = {} THEN Len(items) ELSE (CHOOSE i \in bad : \A j \in bad : i <= j) - 1
    IN scan_loop(o, SubSeq(items, 1, n), failing, <<>>)

scan_files(o, items, failing) == scan_loop(o, items, failing, <<>>)

(* ------------------------------------------------------------------ *)
(* State                                                                *)
(* ------------------------------------------------------------------ *)
VARIABLES
    fs,                \* the filesystem: existing path -> node
    stats,             \* FileOrganizer.stats
    log,               \* the events written by FileOperationLogger, in order
    files,             \* the list returned by scan_files (FileInfo objects)
    idx,               \* position of the for loop over files
    pc,                \* position of the driver
    mode,              \* the driver: "organize_all", "auto", "interactive", "api", "unit"
    destination_base,  \* OrganizerConfig.destination_base
    acts,              \* per descriptor, the outcomes of the calls made for it
    last,              \* the last call: operation, arguments and return value
    faults,            \* number of I/O faults met so far
    calls,             \* number of calls of move_file, delete_file and skip_file
    exit_code,         \* return value of main, -1 while it has not returned
    summary,           \* "none", "logged" (log_summary) or "shown" (_show_summary)
    ending             \* how the driver ended: "" while it runs, then "completed",
                       \* "declined", "interrupted", "config_error" or "exception"

vars == <<fs, stats, log, files, idx, pc, mode, destination_base, acts, last, faults, calls,
          exit_code, summary, ending>>

\* OrganizerConfig.source_dir
source_dir == <<s_src>>

NoCall == [op |-> "none", n |-> 0, idx |-> 0, path |-> <<>>, desired |-> <<>>,
           conflict |-> FALSE, ok |-> TRUE, dest |-> <<>>]

\* a directory holding name (when 0 is in ctrs) and stem_N<suffix> for the other N in ctrs
seeded(dir, name, ctrs) ==
    LET ps == {IF c = 0 THEN dir \o <<name>> ELSE new_path(dir \o <<name>>, c) : c \in ctrs}
    IN [q \in ps |-> FileNode(q)]

\* the names a child of the source directory may have at the start
SourceNames == {s_report_pdf, s_report_1_pdf, s_photo_jpg, s_Images, s_DS_Store}

Init ==
    /\ mode \in {"organize_all", "auto", "interactive", "api"}
    /\ destination_base \in {<<s_src>>, <<s_dst>>}
    /\ \/ \E names \in SUBSET SourceNames, seed \in 0..MaxSeed :
         /\ Cardinality(names) <= MaxFiles
         /\ fs = [q \in {<<s_src, n>> : n \in names} |-> FileNode(q)]
                 @@ (IF seed = 0 THEN <<>>
                     ELSE (destination_base \o <<s_Documents>> :> DirNode)
                          @@ seeded(destination_base \o <<s_Documents>>, s_report_pdf,
                                    0..(seed - 2)))
                 @@ (<<s_src>> :> DirNode) @@ (<<s_dst>> :> DirNode)
       \* main started on a source path that is missing or is a regular file
       \/ /\ mode \in {"auto", "interactive"}
          /\ fs \in {(<<s_dst>> :> DirNode),
                     (<<s_src>> :> FileNode(<<s_src>>)) @@ (<<s_dst>> :> DirNode)}
    /\ stats = InitStats
    /\ log = <<>>
    /\ files = <<>>
    /\ idx = 0
    /\ pc = "start"
    /\ acts = <<>>
    /\ last = NoCall
    /\ faults = 0
    /\ calls = 0
    /\ exit_code = -1
    /\ summary = "none"
    /\ ending = ""

(* ------------------------------------------------------------------ *)
(* Steps                                                                *)
(* ------------------------------------------------------------------ *)
\* Path.iterdir(): the children of dir
children(f, dir) == {q \in DOMAIN f : Len(q) = Len(dir) + 1 /\ is_prefix(dir, q)}

\* the orders in which iterdir may yield the set S
orders(S) == {sq \in [1..Cardinality(S) -> S] : \A i, j \in DOMAIN sq : i # j => sq[i] # sq[j]}

\* the children whose stat() is reached by scan_files
stat_items(f, dir) == {q \in children(f, dir) : ~is_dir(f, q) /\ ~should_ignore_file(name_of(q))}

organizer == [fs |-> fs, stats |-> stats, log |-> log]

\* the outcome of a move_file call, as a state of the per-file state machine
move_outcome(r, conflict) ==
    IF ~r.ok THEN "Errored" ELSE IF conflict THEN "Renamed-and-Moved" ELSE "Moved"

\* record a call of op for descriptor i with result r
record_call(op, i, r, outcome) ==
    /\ fs' = r.fs
    /\ stats' = r.stats
    /\ log' = r.log
    /\ acts' = [acts EXCEPT ![i] = Append(@, outcome)]
    /\ last' = [op |-> op, n |-> last.n + 1, idx |-> i, path |-> files[i].path,
                desired |-> desired_path(destination_base, files[i]),
                conflict |-> exists(fs, desired_path(destination_base, files[i])),
                ok |-> r.ok, dest |-> r.dest]
    /\ calls' = calls + 1

\* the faults a call may meet: none, or one of the given ones while the budget lasts
fault_choices(kinds) == {"none"} \cup (IF faults < MaxFaults THEN kinds ELSE {})

count_fault(fault) == faults' = IF fault = "none" THEN faults ELSE faults + 1

\* self.organizer.scan_files() with the given continuation
do_scan(total_is_set, next_pc, empty_pc) ==
    \E order \in orders(children(fs, source_dir)),
       failing \in SUBSET stat_items(fs, source_dir) :
        /\ faults + Cardinality(failing) <= MaxFaults
        /\ \E r \in {scan_files(organizer, order, failing)} :
              /\ files' = r.files
              /\ log' = r.log
              /\ stats' = IF total_is_set THEN [r.stats EXCEPT !.total = Len(r.files)]
                          ELSE r.stats
              /\ acts' = [i \in 1..Len(r.files) |-> <<>>]
              /\ pc' = IF r.files = <<>> THEN empty_pc ELSE next_pc
              /\ exit_code' = IF r.files = <<>> /\ empty_pc = "done" /\ mode \in {"auto", "interactive"}
                              THEN 0 ELSE exit_code
              /\ ending' = IF r.files = <<>> /\ empty_pc = "done" THEN "completed" ELSE ending
        /\ faults' = faults + Cardinality(failing)
        /\ idx' = 1
        /\ UNCHANGED <<fs, mode, destination_base, last, calls, summary>>

\* scan_files when iterdir() raises: no handler in scan_files, scan_and_preview
\* or the run method catches it, and main turns it into its return value
scan_raises(crash_code) ==
    /\ faults < MaxFaults
    /\ faults' = faults + 1
    /\ pc' = "done"
    /\ exit_code' = crash_code
    /\ ending' = "exception"
    /\ UNCHANGED <<fs, stats, log, files, idx, mode, destination_base, acts, last, calls, summary>>

\* a call of move_file inside a for loop over files
loop_move(i, fault, crash_code) ==
    \E r \in {move_file(organizer, destination_base, files[i], fault)} :
       /\ record_call("move", i, r, move_outcome(r, exists(fs, desired_path(destination_base, files[i]))))
       /\ count_fault(fault)
       /\ IF r.raised
          THEN pc' = "done" /\ exit_code' = crash_code /\ idx' = idx /\ ending' = "exception"
          ELSE pc' = pc /\ exit_code' = exit_code /\ idx' = idx + 1 /\ ending' = ending

\* FileOrganizer.organize_all: scan_files and stats['total'] = len(files)
organize_all_scan ==
    /\ mode = "organize_all" /\ pc = "start"
    /\ \/ do_scan(TRUE, "loop", "loop")
       \/ scan_raises(exit_code)

\* FileOrganizer.organize_all: one iteration of the for loop
organize_all_move ==
    /\ mode = "organize_all" /\ pc = "loop" /\ idx <= Len(files)
    /\ \E fault \in fault_choices({"mkdir", "move"}) : loop_move(idx, fault, exit_code)
    /\ UNCHANGED <<files, mode, destination_base, summary>>

\* FileOrganizer.organize_all: log_summary and return
organize_all_return ==
    /\ mode = "organize_all" /\ pc = "loop" /\ idx > Len(files)
    /\ summary' = "logged"
    /\ pc' = "done"
    /\ ending' = "completed"
    /\ UNCHANGED <<fs, stats, log, files, idx, mode, destination_base, acts, last, faults, calls,
                   exit_code>>

\* CLI.run_automatic_mode: scan_and_preview; an empty list returns at once
run_automatic_scan ==
    /\ mode = "auto" /\ pc = "start"
    /\ is_dir(fs, source_dir)
    /\ \/ do_scan(FALSE, "confirm", "done")
       \/ scan_raises(1)

\* CLI.run_automatic_mode: Confirm.ask("Proceed with automatic organization?")
run_automatic_confirm ==
    /\ mode = "auto" /\ pc = "confirm"
    /\ \E answer \in BOOLEAN :
         /\ pc' = IF answer THEN "loop" ELSE "done"
         /\ exit_code' = IF answer THEN exit_code ELSE 0
         /\ ending' = IF answer THEN ending ELSE "declined"
    /\ UNCHANGED <<fs, stats, log, files, idx, mode, destination_base, acts, last, faults, calls,
                   summary>>

\* CLI.run_automatic_mode: one iteration of the for loop
run_automatic_move ==
    /\ mode = "auto" /\ pc = "loop" /\ idx <= Len(files)
    /\ \E fault \in fault_choices({"mkdir", "move"}) : loop_move(idx, fault, 1)
    /\ UNCHANGED <<files, mode, destination_base, summary>>

\* CLI._show_summary, the return of the run method and of main
show_summary ==
    /\ mode \in {"auto", "interactive"} /\ pc = "loop" /\ idx > Len(files)
    /\ summary' = "shown"
    /\ pc' = "done"
    /\ exit_code' = 0
    /\ ending' = "completed"
    /\ UNCHANGED <<fs, stats, log, files, idx, mode, destination_base, acts, last, faults, calls>>

\* CLI.run_interactive_mode: scan_and_preview and stats['total'] = len(files)
run_interactive_scan ==
    /\ mode = "interactive" /\ pc = "start"
    /\ is_dir(fs, source_dir)
    /\ \/ do_scan(TRUE, "loop", "done")
       \/ scan_raises(1)

\* sorted(set(FILE_FORMAT_FOLDERS.values())) followed by "Others"
categories == <<s_Documents, s_Images>> \o <<s_Others>>

\* CLI._process_file_interactive for files[idx]: choice is the answer to the
\* Action prompt, number the answer of _manual_category_selection, sure the
\* answer to the delete confirmation
process_file_interactive ==
    /\ mode = "interactive" /\ pc = "loop" /\ idx <= Len(files)
    /\ \E choice \in {"a", "m", "d", "s"} :
         \/ /\ choice = "a"
            /\ \E fault \in fault_choices({"mkdir", "move"}) : loop_move(idx, fault, 1)
            /\ UNCHANGED files
         \/ /\ choice = "m"
            /\ \E number \in 1..Len(categories), fault \in fault_choices({"mkdir", "move"}) :
                 \E file_info \in {[files[idx] EXCEPT !.category = categories[number]]} :
                 \E r \in {move_file(organizer, destination_base, file_info, fault)},
                    desired \in {desired_path(destination_base, file_info)} :
                    /\ files' = [files EXCEPT ![idx] = file_info]
                    /\ fs' = r.fs /\ stats' = r.stats /\ log' = r.log
                    /\ acts' = [acts EXCEPT ![idx] = Append(@, move_outcome(r, exists(fs, desired)))]
                    /\ last' = [op |-> "move", n |-> last.n + 1, idx |-> idx,
                                path |-> file_info.path, desired |-> desired,
                                conflict |-> exists(fs, desired), ok |-> r.ok, dest |-> r.dest]
                    /\ calls' = calls + 1
                    /\ count_fault(fault)
                    /\ IF r.raised
                       THEN pc' = "done" /\ exit_code' = 1 /\ idx' = idx /\ ending' = "exception"
                       ELSE pc' = pc /\ exit_code' = exit_code /\ idx' = idx + 1 /\ ending' = ending
         \/ /\ choice = "d"
            /\ \E sure \in BOOLEAN, fault \in fault_choices({"unlink"}) :
                 /\ sure \/ fault = "none"
                 /\ \E r \in {IF sure THEN delete_file(organizer, files[idx], fault)
                              ELSE skip_file(organizer, files[idx], "delete cancelled")} :
                       /\ record_call(IF sure THEN "delete" ELSE "skip", idx, r,
                                      IF ~sure THEN "Skipped"
                                      ELSE IF r.ok THEN "Deleted" ELSE "Errored")
                       /\ IF r.raised
                          THEN pc' = "done" /\ exit_code' = 1 /\ idx' = idx /\ ending' = "exception"
                          ELSE pc' = pc /\ exit_code' = exit_code /\ idx' = idx + 1 /\ ending' = ending
                 /\ count_fault(fault)
            /\ UNCHANGED files
         \/ /\ choice = "s"
            /\ \E r \in {skip_file(organizer, files[idx], "user choice")} :
                  /\ record_call("skip", idx, r, "Skipped")
                  /\ IF r.raised
                     THEN pc' = "done" /\ exit_code' = 1 /\ idx' = idx /\ ending' = "exception"
                     ELSE pc' = pc /\ exit_code' = exit_code /\ idx' = idx + 1 /\ ending' = ending
            /\ UNCHANGED <<files, faults>>
    /\ UNCHANGED <<mode, destination_base, summary>>

\* Ctrl-C at a prompt: KeyboardInterrupt reaches main, which returns 1
keyboard_interrupt ==
    /\ \/ mode = "auto" /\ pc = "confirm"
       \/ mode = "interactive" /\ pc = "loop" /\ idx <= Len(files)
    /\ pc' = "done"
    /\ exit_code' = 1
    /\ ending' = "interrupted"
    /\ UNCHANGED <<fs, stats, log, files, idx, mode, destination_base, acts, last, faults, calls,
                   summary>>

\* main: config.validate() raises ValueError, which main turns into return 1
main_config_invalid ==
    /\ mode \in {"auto", "interactive"} /\ pc = "start"
    /\ ~(exists(fs, source_dir) /\ is_dir(fs, source_dir))
    /\ pc' = "done"
    /\ exit_code' = 1
    /\ ending' = "config_error"
    /\ UNCHANGED <<fs, stats, log, files, idx, mode, destination_base, acts, last, faults, calls,
                   summary>>

\* a caller of the FileOrganizer methods: scan_files once
api_scan ==
    /\ mode = "api" /\ pc = "start"
    /\ \/ do_scan(FALSE, "api", "api")
       \/ scan_raises(exit_code)

\* a caller of the FileOrganizer methods: move_file for any scanned descriptor
api_move ==
    /\ mode = "api" /\ pc = "api" /\ calls < MaxCalls
    /\ \E i \in 1..Len(files), fault \in fault_choices({"mkdir", "move"}) :
         \E r \in {move_file(organizer, destination_base, files[i], fault)} :
            /\ record_call("move", i, r,
                           move_outcome(r, exists(fs, desired_path(destination_base, files[i]))))
            /\ count_fault(fault)
    /\ UNCHANGED <<files, idx, pc, mode, destination_base, exit_code, summary, ending>>

\* a caller of the FileOrganizer methods: delete_file for any scanned descriptor
api_delete ==
    /\ mode = "api" /\ pc = "api" /\ calls < MaxCalls
    /\ \E i \in 1..Len(files), fault \in fault_choices({"unlink"}) :
         \E r \in {delete_file(organizer, files[i], fault)} :
            /\ record_call("delete", i, r, IF r.ok THEN "Deleted" ELSE "Errored")
            /\ count_fault(fault)
    /\ UNCHANGED <<files, idx, pc, mode, destination_base, exit_code, summary, ending>>

\* a caller of the FileOrganizer methods: skip_file for any scanned descriptor
api_skip ==
    /\ mode = "api" /\ pc = "api" /\ calls < MaxCalls
    /\ \E i \in 1..Len(files) :
         record_call("skip", i, skip_file(organizer, files[i], "user choice"), "Skipped")
    /\ UNCHANGED <<files, idx, pc, mode, destination_base, exit_code, summary, faults, ending>>

Next ==
    \/ organize_all_scan
    \/ organize_all_move
    \/ organize_all_return
    \/ run_automatic_scan
    \/ run_automatic_confirm
    \/ run_automatic_move
    \/ run_interactive_scan
    \/ process_file_interactive
    \/ show_summary
    \/ keyboard_interrupt
    \/ main_config_invalid
    \/ api_scan
    \/ api_move
    \/ api_delete
    \/ api_skip

Spec == Init /\ [][Next]_vars

(* ------------------------------------------------------------------ *)
(* Properties                                                           *)
(* ------------------------------------------------------------------ *)
\* the drivers that run over the whole scan list
InRun == mode \in {"organize_all", "auto", "interactive"}

Processed(i) == acts[i] # <<>>

\* the run is over and every scanned descriptor has got its action
AllProcessed ==
    /\ InRun /\ pc = "done"
    /\ Len(files) >= 1
    /\ \A i \in 1..Len(files) : Processed(i)

\* the step is a call of move_file, delete_file or skip_file
IsCall == last'.n # last.n

\* C1: once every scanned descriptor of a run has got its terminal action,
\* total = moved + deleted + skipped + errors (renamed is not part of the sum).
C1_TotalIsSum ==
    AllProcessed =>
        stats.total = stats.moved + stats.deleted + stats.skipped + stats.errors

\* no stat, mkdir, move or unlink failed and no call returned failure
NoFailure == faults = 0 /\ \A i \in 1..Len(files) : \A k \in 1..Len(acts[i]) : acts[i][k] # "Errored"

\* C2: after an automatic run (organize_all or run_automatic_mode) over N
\* scanned descriptors in which nothing failed, moved = N, errors = 0, total = N.
C2_AutomaticCounters ==
    (AllProcessed /\ mode \in {"organize_all", "auto"} /\ NoFailure) =>
        /\ stats.moved = Len(files)
        /\ stats.errors = 0
        /\ stats.total = Len(files)

\* C3: renamed is a sub-count of moved: renamed <= moved in every state.
C3_RenamedWithinMoved == stats.renamed <= stats.moved

\* C4: every RENAMED event is directly followed by the MOVED event of the same
\* file to the renamed name, and a move whose desired destination existed ends
\* with RENAMED, MOVED in the log and the file at the renamed path.
C4_RenamedThenMoved ==
    /\ \A k \in 1..Len(log) :
         log[k].kind = "RENAMED" =>
            /\ k < Len(log)
            /\ log[k + 1].kind = "MOVED"
            /\ log[k + 1].name = log[k].name
            /\ <<name_of(log[k + 1].detail)>> = log[k].detail
    /\ (last.op = "move" /\ last.conflict) =>
            /\ Len(log) >= 2
            /\ log[Len(log) - 1].kind = "RENAMED"
            /\ log[Len(log)].kind = "MOVED"
            /\ last.dest # last.desired
            /\ is_file(fs, last.dest)

\* C5: a move never overwrites: every path outside the moved source keeps its
\* node (so a file already at category/name stays untouched there), and a
\* successful move whose desired path existed puts the file at a path that was
\* free, which is category/stem_1<suffix> when that was free, and adds exactly
\* 1 to renamed.
C5_NeverOverwrites ==
    [][(IsCall /\ last'.op = "move") =>
          /\ \A q \in DOMAIN fs :
               ~is_prefix(last'.path, q) => (q \in DOMAIN fs' /\ fs'[q] = fs[q])
          /\ (last'.conflict /\ last'.ok) =>
               /\ ~exists(fs, last'.dest)
               /\ fs'[last'.dest] = fs[last'.path]
               /\ ~exists(fs, new_path(last'.desired, 1)) => last'.dest = new_path(last'.desired, 1)
               /\ stats'.renamed = stats.renamed + 1]_vars

\* C5 witness: a file was moved next to an untouched file of the same name
C5_Witness ==
    /\ last.op = "move" /\ last.conflict /\ last.ok
    /\ last.dest = new_path(last.desired, 1)
    /\ is_file(fs, last.desired) /\ fs[last.desired].id = last.desired
    /\ fs[last.dest].id = last.path
    /\ stats.renamed = 1

\* C6: a call that returns gives p itself when p does not exist, and otherwise
\* parent/stem_N<suffix> for the smallest N >= 1 whose path does not exist; the
\* returned path does not exist.
C6_UniqueFilename ==
    (pc = "returned" /\ last.ok) =>
        /\ ~exists(fs, last.path) => last.dest = last.path
        /\ exists(fs, last.path) =>
             \E N \in 1..MaxCounter :
                /\ parent_of(last.dest) = parent_of(last.path)
                /\ name_of(last.dest) =
                     stem(name_of(last.path)) \o <<"_">> \o str(N) \o suffix(name_of(last.path))
                /\ \A m \in 1..(N - 1) : exists(fs, new_path(last.path, m))
        /\ ~exists(fs, last.dest)

\* C6 witness: stem_1 and stem_2 were taken and stem_3 was returned
C6_Witness ==
    /\ pc = "returned" /\ last.ok
    /\ exists(fs, last.path)
    /\ last.dest = new_path(last.path, 3)

\* C7: the call fails exactly when p and every stem_1 .. stem_9999 exist, and
\* a returned name is p or carries a counter between 1 and 9999.
C7_Ceiling ==
    pc = "returned" =>
        /\ ~last.ok <=> (exists(fs, last.path)
                         /\ \A c \in 1..MaxCounter : exists(fs, new_path(last.path, c)))
        /\ last.ok => \/ last.dest = last.path
                      \/ \E c \in 1..MaxCounter : last.dest = new_path(last.path, c)

\* C7 witness: the call failed on a directory holding all 10000 names
C7_Witness ==
    /\ pc = "returned" /\ ~last.ok
    /\ Cardinality(DOMAIN fs) > MaxCounter

\* C8: delete_file for a path that is not an existing regular file returns
\* False, adds one to errors, leaves deleted alone, logs one ERROR event for
\* the file and nothing else, and changes nothing in the filesystem.
C8_DeleteMissing ==
    [][(IsCall /\ last'.op = "delete" /\ ~is_file(fs, last'.path)) =>
          /\ ~last'.ok
          /\ stats' = [stats EXCEPT !.errors = @ + 1]
          /\ Len(log') = Len(log) + 1
          /\ SubSeq(log', 1, Len(log)) = log
          /\ log'[Len(log')].kind = "ERROR"
          /\ log'[Len(log')].name = name_of(last'.path)
          /\ fs' = fs]_vars

\* C8 witness: a delete failed, without any I/O fault, on a path that is gone
C8_Witness ==
    /\ last.op = "delete" /\ ~last.ok
    /\ faults = 0
    /\ ~exists(fs, last.path)
    /\ stats.errors = 1 /\ stats.deleted = 0

\* C9: in a run the descriptors are processed in scan order, a call that
\* returns failure leaves the loop running at the next descriptor, and a run
\* that entered its loop ends with every descriptor processed unless the user
\* interrupted it.
C9_FailuresIsolated ==
    /\ [](InRun => \A i \in 1..Len(files) : Processed(i) <=> i < idx)
    /\ [][(InRun /\ IsCall /\ ~last'.ok) => (pc' = "loop" /\ idx' = idx + 1)]_vars
    /\ [][(InRun /\ pc = "loop" /\ pc' = "done") =>
            (idx > Len(files) \/ (mode = "interactive" /\ exit_code' = 1 /\ ~IsCall))]_vars
    /\ (InRun /\ pc = "loop") ~> (pc = "done")

\* C9 witness: a run ended with a failed descriptor followed by a processed one
C9_Witness ==
    /\ AllProcessed
    /\ summary # "none"
    /\ \E i \in 1..(Len(files) - 1) : acts[i] = <<"Errored">>

ErrorEvents(lg) == Cardinality({k \in 1..Len(lg) : lg[k].kind = "ERROR"})

\* C10: the number of ERROR events equals errors in every state; a call that
\* returns failure has logged an ERROR event for its file and added one to
\* errors, a call that returns success has not; and scan_files logs and counts
\* one error for every eligible child that is missing from its list.
C10_ErrorsLoggedAndCounted ==
    /\ [](ErrorEvents(log) = stats.errors)
    /\ [][IsCall =>
            IF last'.ok THEN stats'.errors = stats.errors
            ELSE /\ stats'.errors = stats.errors + 1
                 /\ log'[Len(log')].kind = "ERROR"
                 /\ log'[Len(log')].name = name_of(last'.path)]_vars
    /\ [][(pc = "start" /\ pc' # "start" /\ ending' \notin {"exception", "config_error"}) =>
            /\ stats'.errors = Cardinality(stat_items(fs, source_dir)) - Len(files')
            /\ ErrorEvents(log') = stats'.errors]_vars

\* C10 witness: a failed call, logged and counted
C10_Witness ==
    /\ ~last.ok /\ last.op \in {"move", "delete"}
    /\ stats.errors = 1
    /\ ErrorEvents(log) = 1

\* the names a child of the source directory may have at the start of a fair run
RunNames == {s_report_pdf, s_photo_jpg, s_Images}

\* the runs of the three drivers over the children named in RunNames
InitRun ==
    /\ Init
    /\ InRun
    /\ \A n \in SourceNames \ RunNames : ~exists(fs, <<s_src, n>>)

NextRun ==
    \/ organize_all_scan
    \/ organize_all_move
    \/ organize_all_return
    \/ run_automatic_scan
    \/ run_automatic_confirm
    \/ run_automatic_move
    \/ run_interactive_scan
    \/ process_file_interactive
    \/ show_summary
    \/ keyboard_interrupt
    \/ main_config_invalid

\* a driver is single-threaded and synchronous: it keeps taking its next step
FairSpec == InitRun /\ [][NextRun]_vars /\ WF_vars(NextRun)

(* ------------------------------------------------------------------ *)
(* get_unique_filename on its own: one call on a given directory        *)
(* ------------------------------------------------------------------ *)
InitUnique ==
    /\ mode = "unit"
    /\ pc = "unique"
    /\ destination_base = <<s_dst>>
    /\ \E name \in {s_report_pdf, s_report_1_pdf, s_Images} :
         /\ \/ \E ctrs \in SUBSET (0..(MaxSeed + 1)) :
                 fs = seeded(<<s_dst>>, s_report_pdf, ctrs) @@ (<<s_dst>> :> DirNode)
            \/ \E gap \in {0, 1, MaxCounter - 1, MaxCounter, MaxCounter + 1} :
                 fs = seeded(<<s_dst>>, name, (0..MaxCounter) \ {gap}) @@ (<<s_dst>> :> DirNode)
         /\ last = [NoCall EXCEPT !.path = <<s_dst, name>>]
    /\ stats = InitStats
    /\ log = <<>>
    /\ files = <<>>
    /\ idx = 0
    /\ acts = <<>>
    /\ faults = 0
    /\ calls = 0
    /\ exit_code = -1
    /\ summary = "none"
    /\ ending = ""

\* get_unique_filename(last.path) against the current filesystem
call_get_unique_filename ==
    /\ mode = "unit" /\ pc = "unique"
    /\ LET r == get_unique_filename(fs, last.path)
       IN last' = [last EXCEPT !.op = "get_unique_filename", !.n = 1, !.ok = r.ok,
                               !.dest = r.path]
    /\ pc' = "returned"
    /\ UNCHANGED <<fs, stats, log, files, idx, mode, destination_base, acts, faults, calls,
                   exit_code, summary, ending>>

NextUnique == call_get_unique_filename

SpecUnique == InitUnique /\ [][NextUnique]_vars

(* ------------------------------------------------------------------ *)
(* scan_files on its own: one scan of a given source directory          *)
(* ------------------------------------------------------------------ *)
\* the names a regular file of a scanned directory may have
ScanNames == {s_report_pdf, s_REPORT_PDF, s_photo_jpg, s_notes_xyz, s_Images, s_DS_Store,
              s_Thumbs_db}

\* a source directory with up to MaxScan regular files and, possibly, a
\* subdirectory that holds a file of its own
InitScan ==
    /\ mode = "api"
    /\ pc = "start"
    /\ destination_base = <<s_src>>
    /\ \E names \in SUBSET ScanNames, subdir \in BOOLEAN :
         /\ Cardinality(names) <= MaxScan
         /\ fs = [q \in {<<s_src, n>> : n \in names} |-> FileNode(q)]
                 @@ (IF subdir
                     THEN (<<s_src, s_Documents>> :> DirNode)
                          @@ seeded(<<s_src, s_Documents>>, s_report_pdf, {0})
                     ELSE <<>>)
                 @@ (<<s_src>> :> DirNode)
    /\ stats = InitStats
    /\ log = <<>>
    /\ files = <<>>
    /\ idx = 0
    /\ acts = <<>>
    /\ last = NoCall
    /\ faults = 0
    /\ calls = 0
    /\ exit_code = -1
    /\ summary = "none"
    /\ ending = ""

NextScan == api_scan

SpecScan == InitScan /\ [][NextScan]_vars

\* name ends with ext when letter case is ignored, and is longer than ext
ends_with(name, ext) ==
    /\ Len(name) > Len(ext)
    /\ lower(SubSeq(name, Len(name) - Len(ext) + 1, Len(name))) = ext

\* C11: a scan that returns lists, without repetition, direct children of the
\* source directory that are regular files and not ignorable, each with the
\* category of its extension (.pdf Documents, .jpg Images, otherwise Others);
\* every such child missing from the list has exactly one ERROR event and one
\* count in errors, whatever its position among the children; the scan
\* changes nothing in the filesystem.
C11_ScanFiles ==
    [][(pc = "start" /\ pc' = "api") =>
          LET eligible == {q \in DOMAIN fs :
                              /\ Len(q) = 2 /\ q[1] = s_src
                              /\ fs[q].kind = "file"
                              /\ q[2][1] # "."
                              /\ q[2] \notin {s_Thumbs_db, s_desktop_ini}}
              listed == {files'[i].path : i \in 1..Len(files')}
              missing == eligible \ listed
          IN /\ listed \subseteq eligible
             /\ Cardinality(listed) = Len(files')
             /\ \A i \in 1..Len(files') :
                   files'[i].category =
                      IF ends_with(name_of(files'[i].path), s_pdf) THEN s_Documents
                      ELSE IF ends_with(name_of(files'[i].path), s_jpg) THEN s_Images
                      ELSE s_Others
             /\ Len(log') = Len(log) + Cardinality(missing)
             /\ \A q \in missing :
                   Cardinality({k \in (Len(log) + 1)..Len(log') :
                                   log'[k].kind = "ERROR" /\ log'[k].name = name_of(q)}) = 1
             /\ stats' = [stats EXCEPT !.errors = @ + Cardinality(missing)]
             /\ fs' = fs]_vars

\* C11 witness: of .DS_Store, notes.xyz, photo.jpg and report.pdf, the scan
\* listed notes.xyz as Others and report.pdf as Documents and logged the
\* failed read of photo.jpg
C11_Witness ==
    /\ pc = "api"
    /\ {<<s_src, s_DS_Store>>, <<s_src, s_photo_jpg>>} \subseteq DOMAIN fs
    /\ {files[i] : i \in 1..Len(files)} =
          {FileInfo(<<s_src, s_notes_xyz>>, s_Others), FileInfo(<<s_src, s_report_pdf>>, s_Documents)}
    /\ stats.errors = 1
    /\ log = <<Event("ERROR", s_photo_jpg, <<>>, "OSError")>>

(* ------------------------------------------------------------------ *)
(* Properties of main and of the interactive driver                     *)
(* ------------------------------------------------------------------ *)
\* main has returned
MainReturned == mode \in {"auto", "interactive"} /\ ending # ""

\* C12: when main has returned, its exit code is 0 if the run completed or the
\* user cancelled it (declined the confirmation, or aborted at a prompt), and
\* 1 if the configuration was invalid or an exception reached main.
C12_ExitCodes ==
    MainReturned =>
        /\ ending \in {"completed", "declined", "interrupted"} => exit_code = 0
        /\ ending \in {"config_error", "exception"} => exit_code = 1

\* C13: when the user has aborted an interactive run at the prompt of a file,
\* the run is over, that file and the ones after it are unprocessed, and the
\* summary with the counters of the processed files has been shown.
C13_AbortReportsCounters ==
    (mode = "interactive" /\ ending = "interrupted") =>
        /\ pc = "done"
        /\ \A i \in idx..Len(files) : ~Processed(i)
        /\ summary = "shown"

\* the sum of the counters of terminal actions
Terminal(st) == st.moved + st.deleted + st.skipped + st.errors

\* C14: in a run no descriptor has more than one action; a call is always for
\* a descriptor without an action; and every answer at the Action prompt of
\* an interactive run makes exactly one call of move_file, delete_file or
\* skip_file for the current descriptor, which adds one to exactly one of
\* moved, deleted, skipped and errors: the one of the outcome.
C14_OneTerminalAction ==
    /\ [](InRun => \A i \in 1..Len(files) : Len(acts[i]) <= 1)
    /\ [][(InRun /\ IsCall) => acts[last'.idx] = <<>>]_vars
    /\ [][(mode = "interactive" /\ pc = "loop" /\ idx <= Len(files) /\ ending' # "interrupted") =>
            /\ IsCall
            /\ last'.n = last.n + 1
            /\ last'.idx = idx
            /\ last'.op \in {"move", "delete", "skip"}
            /\ Len(acts'[idx]) = 1
            /\ \A i \in 1..Len(files) : i # idx => acts'[i] = acts[i]
            /\ Terminal(stats') = Terminal(stats) + 1
            /\ stats'.moved = stats.moved +
                  (IF acts'[idx][1] \in {"Moved", "Renamed-and-Moved"} THEN 1 ELSE 0)
            /\ stats'.deleted = stats.deleted + (IF acts'[idx][1] = "Deleted" THEN 1 ELSE 0)
            /\ stats'.skipped = stats.skipped + (IF acts'[idx][1] = "Skipped" THEN 1 ELSE 0)
            /\ stats'.errors = stats.errors + (IF acts'[idx][1] = "Errored" THEN 1 ELSE 0)]_vars

\* C14 witness: an interactive run that deleted one file and skipped the other
C14_Witness ==
    /\ mode = "interactive" /\ AllProcessed
    /\ {acts[i] : i \in 1..Len(files)} = {<<"Deleted">>, <<"Skipped">>}
    /\ stats.deleted = 1 /\ stats.skipped = 1 /\ stats.moved = 0 /\ stats.errors = 0

(* ------------------------------------------------------------------ *)
(* The pure functions of utils on their own: one call on a given name   *)
(* ------------------------------------------------------------------ *)
\* the file names given to the functions
UtilNames == {s_report_pdf, s_REPORT_PDF, s_photo_jpg, s_notes_xyz, s_Images, s_pdf,
              s_DS_Store, s_Thumbs_db, lower(s_Thumbs_db), s_desktop_ini, s_localized}

\* the format mappings given to get_file_category: the entries of some keys
UtilTables ==
    LET full == (s_pdf :> s_Documents) @@ (s_jpg :> s_Images) @@ (s_PDF :> s_Images)
    IN {[k \in keys |-> full[k]] : keys \in SUBSET DOMAIN full}

InitUtil ==
    /\ mode = "unit"
    /\ pc = "util"
    /\ destination_base = <<s_dst>>
    /\ fs = (<<s_dst>> :> DirNode)
    /\ \E name \in UtilNames, table \in UtilTables, default \in {DEFAULT_CATEGORY, s_Documents} :
         last = [op |-> "none", n |-> 0, path |-> <<name>>, table |-> table,
                 default |-> default, ok |-> TRUE, dest |-> <<>>]
    /\ stats = InitStats
    /\ log = <<>>
    /\ files = <<>>
    /\ idx = 0
    /\ acts = <<>>
    /\ faults = 0
    /\ calls = 0
    /\ exit_code = -1
    /\ summary = "none"
    /\ ending = ""

\* get_file_category(last.path, last.table, last.default)
call_get_file_category ==
    /\ mode = "unit" /\ pc = "util"
    /\ last' = [last EXCEPT !.op = "get_file_category", !.n = 1,
                            !.dest = get_file_category(name_of(last.path), last.table, last.default)]
    /\ pc' = "classified"
    /\ UNCHANGED <<fs, stats, log, files, idx, mode, destination_base, acts, faults, calls,
                   exit_code, summary, ending>>

\* should_ignore_file(last.path)
call_should_ignore_file ==
    /\ mode = "unit" /\ pc = "util"
    /\ last' = [last EXCEPT !.op = "should_ignore_file", !.n = 1,
                            !.ok = should_ignore_file(name_of(last.path))]
    /\ pc' = "filtered"
    /\ UNCHANGED <<fs, stats, log, files, idx, mode, destination_base, acts, faults, calls,
                   exit_code, summary, ending>>

NextUtil ==
    \/ call_get_file_category
    \/ call_should_ignore_file

SpecUtil == InitUtil /\ [][NextUtil]_vars

\* the extension of a name: what starts at its last dot, nothing when there is
\* no dot or the only dot leads the name
Extension(name) ==
    LET dots == {i \in 2..Len(name) : name[i] = "."}
    IN IF dots = {} THEN <<>>
       ELSE SubSeq(name, CHOOSE i \in dots : \A j \in dots : j <= i, Len(name))

\* C15: the category returned for a name is table[e] when e, the extension in
\* lower case, is a key of the table, and the default otherwise; it is the
\* category returned for the name written in lower case.
C15_Classifier ==
    pc = "classified" =>
        LET name == name_of(last.path)
            e == lower(Extension(name))
        IN /\ e \in DOMAIN last.table => last.dest = last.table[e]
           /\ e \notin DOMAIN last.table => last.dest = last.default
           /\ last.dest = get_file_category(lower(name), last.table, last.default)

\* C15 witness: REPORT.PDF is classified by the entry of .pdf
C15_Witness ==
    /\ pc = "classified"
    /\ last.path = <<s_REPORT_PDF>>
    /\ s_pdf \in DOMAIN last.table
    /\ last.dest = s_Documents

\* C16: the result for a name is true exactly when the name starts with "."
\* or is one of .DS_Store, Thumbs.db, desktop.ini and .localized.
C16_IgnoreFilter ==
    pc = "filtered" =>
        LET name == name_of(last.path)
        IN last.ok <=> \/ name[1] = "."
                       \/ name \in {s_DS_Store, s_Thumbs_db, s_desktop_ini, s_localized}

\* C16 witness: Thumbs.db, which has no leading dot, is ignored
C16_Witness ==
    /\ pc = "filtered"
    /\ last.path = <<s_Thumbs_db>>
    /\ last.ok

(* ------------------------------------------------------------------ *)
(* Automatic runs against the category folder Others when it holds     *)
(* Images and all of Images_1 .. Images_9999                            *)
(* ------------------------------------------------------------------ *)
\* the value of a decimal digit character
digit_value(ch) == CHOOSE d \in 0..9 : digit(d) = ch

\* int() of a string of decimal digits
RECURSIVE int(_)
int(s) == IF s = <<>> THEN 0 ELSE 10 * int(SubSeq(s, 1, Len(s) - 1)) + digit_value(s[Len(s)])

\* a folder dir holding name and every stem_1 .. stem_9999 of it; the file
\* with counter N has the number N as its identity, name itself has 0
full_folder(dir, name) ==
    LET ps == {IF c = 0 THEN dir \o <<name>> ELSE new_path(dir \o <<name>>, c) : c \in 0..MaxCounter}
        counter(q) == IF name_of(q) = name THEN 0
                      ELSE int(SubSeq(name_of(q), Len(stem(name)) + 2,
                                      Len(name_of(q)) - Len(suffix(name))))
    IN [q \in ps |-> FileNode(counter(q))]

InitCeiling ==
    /\ mode \in {"organize_all", "auto"}
    /\ destination_base = <<s_dst>>
    /\ \E names \in {{s_Images}, {s_Images, s_photo_jpg}, {s_Images, s_report_pdf}} :
         /\ fs = [q \in {<<s_src, n>> : n \in names} |-> FileNode(q)]
                 @@ (<<s_dst, s_Others>> :> DirNode)
                 @@ full_folder(<<s_dst, s_Others>>, s_Images)
                 @@ (<<s_src>> :> DirNode) @@ (<<s_dst>> :> DirNode)
    /\ stats = InitStats
    /\ log = <<>>
    /\ files = <<>>
    /\ idx = 0
    /\ pc = "start"
    /\ acts = <<>>
    /\ last = NoCall
    /\ faults = 0
    /\ calls = 0
    /\ exit_code = -1
    /\ summary = "none"
    /\ ending = ""

NextCeiling ==
    \/ organize_all_scan
    \/ organize_all_move
    \/ organize_all_return
    \/ run_automatic_scan
    \/ run_automatic_confirm
    \/ run_automatic_move
    \/ show_summary
    \/ keyboard_interrupt

SpecCeiling == InitCeiling /\ [][NextCeiling]_vars

\* every stem_1 .. stem_9999 of path p exists in f
AllTaken(f, p) ==
    LET dir == parent_of(p)
        st == stem(name_of(p)) \o <<"_">>
        sf == suffix(name_of(p))
    IN \A c \in 1..MaxCounter : (dir \o <<st \o str(c) \o sf>>) \in DOMAIN f

\* C17: a move_file call whose desired path and every stem_1 .. stem_9999 of
\* it exist returns (False, None), adds one to errors and changes no other
\* counter, appends one ERROR event for the file and nothing else, leaves the
\* source file at its path and the number of paths as it was, and leaves the
\* loop of the run at the next descriptor.
C17_ExhaustionIsLocal ==
    [][(IsCall /\ last'.op = "move" /\ last'.conflict /\ AllTaken(fs, last'.desired)) =>
          /\ ~last'.ok
          /\ last'.dest = <<>>
          /\ stats' = [stats EXCEPT !.errors = @ + 1]
          /\ Len(log') = Len(log) + 1
          /\ SubSeq(log', 1, Len(log)) = log
          /\ log'[Len(log')].kind = "ERROR"
          /\ log'[Len(log')].name = name_of(last'.path)
          /\ is_file(fs', last'.path) /\ fs'[last'.path] = fs[last'.path]
          /\ Cardinality(DOMAIN fs') = Cardinality(DOMAIN fs)
          /\ pc' = "loop" /\ idx' = idx + 1]_vars

\* C17 witness: a run without I/O fault ended after the file Images met the
\* exhausted folder and the descriptor after it was moved
C17_Witness ==
    /\ AllProcessed /\ faults = 0
    /\ \E i \in 1..(Len(files) - 1) :
          /\ files[i].path = <<s_src, s_Images>>
          /\ acts[i] = <<"Errored">>
          /\ acts[i + 1] = <<"Moved">>
    /\ is_file(fs, <<s_src, s_Images>>)
    /\ stats.errors = 1 /\ stats.renamed = 0 /\ stats.moved = 1
    /\ AllTaken(fs, <<s_dst, s_Others, s_Images>>)

(* ------------------------------------------------------------------ *)
(* Files are kept                                                       *)
(* ------------------------------------------------------------------ *)
\* the paths of the regular files
Files(f) == {p \in DOMAIN f : f[p].kind = "file"}

\* C18: no file is at two paths, and a step keeps every file: the file stays
\* at its path, or the step is a successful move_file that takes it (with the
\* path moved) to the returned path, which lies in a category folder of the
\* destination base, or the step is a successful delete_file of its path.
C18_NoFileLost ==
    /\ [](\A p, q \in Files(fs) : fs[p].id = fs[q].id => p = q)
    /\ [][\A p \in Files(fs) :
            \/ p \in DOMAIN fs' /\ fs'[p] = fs[p]
            \/ /\ IsCall /\ last'.op = "move" /\ last'.ok
               /\ is_prefix(last'.path, p)
               /\ Len(last'.dest) = Len(destination_base) + 2
               /\ is_prefix(destination_base, last'.dest)
               /\ LET moved == last'.dest \o SubSeq(p, Len(last'.path) + 1, Len(p))
                  IN moved \in DOMAIN fs' /\ fs'[moved] = fs[p]
            \/ /\ IsCall /\ last'.op = "delete" /\ last'.ok
               /\ p = last'.path]_vars

\* C18 witness: after a move that met a name conflict and a delete, the file
\* already in the category folder, the moved file and no other file of the
\* start are there, each at one path
C18_Witness ==
    /\ last.op = "delete" /\ last.ok /\ ~exists(fs, last.path)
    /\ \E p, q \in Files(fs) :
          /\ fs[p].id = p /\ is_prefix(destination_base \o <<s_Documents>>, p)
          /\ q = new_path(p, 1)
          /\ fs[q].id = <<s_src, s_report_pdf>>
    /\ ~exists(fs, <<s_src, s_report_pdf>>)

====
